---- MODULE Spec2Model ----
(***************************************************************************)
(* Echo-TTS REST proxy: the auth gate, the voice registry over the blob    *)
(* store and the TTS request proxy, as state machines.  Three deployments  *)
(* of the same interface exist in the source and are modelled side by      *)
(* side: the per-endpoint serverless handlers (api/voices.py,              *)
(* api/voices/[id].py, api/tts.py with api/_utils.py), the Flask           *)
(* application (api/index.py) and the Modal application (modal_app.py).    *)
(* Every blocking call to the store or to the inference service is one     *)
(* step, so that concurrent requests interleave between calls.             *)
(***************************************************************************)
EXTENDS Integers, Sequences, FiniteSets, TLC

VARIABLES
    cfg,      \* process-wide configuration, read once at start
    store,    \* the blob store: pathname -> object
    req,      \* req[p]: the request client slot p is serving, with its locals
    last,     \* the request the latest step completed, with its response
              \* (Idle when the latest step sent no response)
    files,    \* temporary files present on the proxy's disk (by owner slot)
    served,   \* number of requests begun so far
    removed,  \* ids deleted successfully with no Create upload since
    defaults, \* the process-wide DEFAULT_PARAMS dictionary
    registered \* registered[id]: the 201 response body of the latest Create of
              \* id, while no successful Delete has removed its metadata since

vars == <<cfg, store, req, last, files, served, removed, registered, defaults>>

----------------------------------------------------------------------------
(* Bounds of the exploration *)

MaxRequests == 3      \* requests begun in one behaviour
MaxIdLen == 2         \* length of a client-supplied identifier
MaxTextLen == 3       \* length of a request text

\* two requests are served at a time
Clients == {1, 2}

SeqsUpTo(S, n) == UNION {[1..k -> S] : k \in 0..n}

----------------------------------------------------------------------------
(* Characters and strings.  A string is a sequence of characters; the     *)
(* character classes below are the ones Python's str methods distinguish. *)

AsciiLower == {"a", "b", "x"}
AsciiUpper == {"A", "B", "S"}
AsciiDigit == {"1", "7"}
NonAsciiAlnum == {"e_acute"}   \* U+00E9, one character
Whitespace == {" "}

\* str.isalnum(): true of every Unicode letter and digit
isalnum(c) == c \in AsciiLower \cup AsciiUpper \cup AsciiDigit \cup NonAsciiAlnum

\* str.lower() on one character
lower(c) ==
    CASE c = "A" -> "a"
      [] c = "B" -> "b"
      [] c = "S" -> "s"
      [] OTHER -> c

startswith(s, pre) == Len(pre) <= Len(s) /\ SubSeq(s, 1, Len(pre)) = pre

endswith(s, suf) ==
    Len(suf) <= Len(s) /\ SubSeq(s, Len(s) - Len(suf) + 1, Len(s)) = suf

RECURSIVE lstrip(_)
lstrip(s) == IF s # <<>> /\ Head(s) \in Whitespace THEN lstrip(Tail(s)) ELSE s

RECURSIVE rstrip(_)
rstrip(s) ==
    IF s # <<>> /\ s[Len(s)] \in Whitespace
    THEN rstrip(SubSeq(s, 1, Len(s) - 1))
    ELSE s

\* str.strip()
strip(s) == rstrip(lstrip(s))

----------------------------------------------------------------------------
(* Identifier sanitization, api/voices.py:124 and api/index.py:180 *)

\* ''.join(c for c in voice_id if c.isalnum() or c in '-_').lower()
SanitizeId(raw) ==
    LET kept == SelectSeq(raw, LAMBDA c : isalnum(c) \/ c \in {"-", "_"})
    IN  [i \in 1..Len(kept) |-> lower(kept[i])]

\* str(uuid.uuid4())[:8]: eight hexadecimal digits
GeneratedIds == {<<"1", "a", "7", "b", "1", "a", "7", "b">>}

\* extension whitelist and the coercion of everything else to wav
AudioExts == {"wav", "mp3", "ogg", "flac", "m4a", "aac"}
AudioExt(fileExt) == IF fileExt \in AudioExts THEN fileExt ELSE "wav"

----------------------------------------------------------------------------
(* The blob store.  An object lives at a pathname voices/<id>.<ext>; the   *)
(* store addresses it by a URL that is a function of the pathname.         *)

Pathname(id, ext) == <<"voices/">> \o id \o <<".", ext>>
\* a prefix that stops at the id
VoicePrefix_NoDot(id) == <<"voices/">> \o id

VoicePrefix(id) == <<"voices/">> \o id \o <<".">>
IsJson(path) == endswith(path, <<".", "json">>)
UrlOf(path) == <<"https://blob/">> \o path
PathOfUrl(url) == Tail(url)

NoMeta == [id |-> <<>>, name |-> <<>>, audio_url |-> <<>>, file_size |-> 0]
AudioObject(data) == [json |-> FALSE, data |-> data, meta |-> NoMeta]
MetaObject(meta) == [json |-> TRUE, data |-> <<>>, meta |-> meta]

\* GET /?prefix=...: the pathnames that start with the prefix
blob_list(s, prefix) == {path \in DOMAIN s : startswith(path, prefix)}

\* PUT /<path>: creates or overwrites the object at the pathname
blob_put(s, path, obj) ==
    [x \in DOMAIN s \cup {path} |-> IF x = path THEN obj ELSE s[x]]

\* a batch delete that drops the metadata objects and leaves the audio behind
blob_delete_metadata_only(s, urls) ==
    [x \in {y \in DOMAIN s : ~(UrlOf(y) \in urls /\ s[y].json)} |-> s[x]]

\* POST /delete {urls}: removes the objects at the URLs, in one batch
blob_delete(s, urls) ==
    [x \in {y \in DOMAIN s : UrlOf(y) \notin urls} |-> s[x]]

EmptyStore == [x \in {} |-> AudioObject(<<>>)]

HasMeta(s, id) == Pathname(id, "json") \in DOMAIN s
StoredIds(s) == {s[x].meta.id : x \in {y \in DOMAIN s : s[y].json}}

----------------------------------------------------------------------------
(* Auth gate *)

NoKey == "<none>"          \* header or parameter absent (None)
Secret == "k-secret"
WrongKey == "k-wrong"
KeyVals == {NoKey, Secret, WrongKey}

\* what a request presents: X-API-Key, Authorization: Bearer <key>, ?api_key=
Creds == [xkey : KeyVals, bearer : KeyVals, query : KeyVals]
NoCreds == [xkey |-> NoKey, bearer |-> NoKey, query |-> NoKey]

\* api/_utils.py: X-API-Key, then Bearer; no query parameter
get_api_key_from_request(cred) ==
    IF cred.xkey # NoKey THEN cred.xkey
    ELSE IF cred.bearer # NoKey THEN cred.bearer
    ELSE NoKey

\* api/index.py: X-API-Key, then Bearer, then request.args (any method)
get_api_key(cred, method) ==
    IF cred.xkey # NoKey THEN cred.xkey
    ELSE IF cred.bearer # NoKey THEN cred.bearer
    ELSE cred.query

\* modal_app.py check_auth: Bearer first, else X-API-Key
modal_key(cred) == IF cred.bearer # NoKey THEN cred.bearer ELSE cred.xkey

\* the candidate key of a request under the deployment in use
CandidateKey(variant, cred, method) ==
    CASE variant = "serverless" -> get_api_key_from_request(cred)
      [] variant = "flask" -> get_api_key(cred, method)
      [] variant = "modal" -> modal_key(cred)

\* a gate that lets a request with no key through
verify_api_key_lenient(c, cred, method) ==
    \/ c.API_KEY = ""
    \/ CandidateKey(c.variant, cred, method) \in {c.API_KEY, NoKey}

\* verify_api_key / require_auth / check_auth: open mode, else exact match
verify_api_key(c, cred, method) ==
    \/ c.API_KEY = ""
    \/ CandidateKey(c.variant, cred, method) = c.API_KEY

\* the body of the 401 response
AuthError(variant) ==
    IF variant = "modal"
    THEN [field |-> "detail", message |-> "Invalid API key"]
    ELSE [field |-> "error", message |-> "Invalid or missing API key"]

----------------------------------------------------------------------------
(* Generation parameters.  A value is its type as the handler sees it (a   *)
(* JSON number, boolean or string; a form field is always a string) and    *)
(* its text.                                                               *)

Val(k, t) == [k |-> k, t |-> t]
Absent == Val("absent", "")       \* the option is not in the request
Raised == Val("raise", "")        \* the conversion raised ValueError/TypeError

OptionNames ==
    {"preset_name", "num_steps", "rng_seed", "speaker_kv_enable", "speaker_kv_scale"}

\* DEFAULT_PARAMS of api/_utils.py and api/index.py
DEFAULT_PARAMS ==
    [preset_name |-> Val("str", "Independent (High Speaker CFG)"),
     num_steps |-> Val("num", "40"),
     rng_seed |-> Val("num", "0"),
     speaker_kv_enable |-> Val("bool", "true"),
     speaker_kv_scale |-> Val("num", "1.5")]

NumTexts == {"0", "5", "40", "1.5"}

\* Python truthiness
Truthy(v) ==
    CASE v.k = "str" -> v.t # ""
      [] v.k = "num" -> v.t # "0"
      [] v.k = "bool" -> v.t = "true"
      [] OTHER -> FALSE

\* int(x) and float(x): a number, or a string that spells one
ToNumber(v) ==
    IF v.k = "num" \/ (v.k = "str" /\ v.t \in NumTexts) THEN Val("num", v.t)
    ELSE IF v.k = "bool" THEN Val("num", IF v.t = "true" THEN "1" ELSE "0")
    ELSE Raised

\* bool(x)
ToBool(v) == Val("bool", IF Truthy(v) THEN "true" ELSE "false")

\* str(val).lower() in ('true', '1', 'yes')
SpellsTrue(v) ==
    Val("bool", IF v.t \in {"true", "1", "yes"} THEN "true" ELSE "false")

\* what a form carries of an option: its text, as a string
FormField(v) == IF v = Absent THEN Absent ELSE Val("str", v.t)

\* the body is read as a form: api/tts.py on multipart/form-data, api/index.py
\* whenever request.is_json is false
IsForm(variant, ctype) ==
    IF variant = "flask" THEN ctype # "json" ELSE ctype = "multipart"

\* the options as the handler reads them off the body
Wire(variant, ctype, opts) ==
    IF IsForm(variant, ctype)
    THEN [n \in DOMAIN opts |-> FormField(opts[n])]
    ELSE opts

\* a handler that works on the module's dictionary itself: what it assigns
\* stays in the dictionary
DefaultsAfter_Aliased(base, params) == params

\* params = DEFAULT_PARAMS.copy(): the overrides are assigned to a copy, the
\* module's dictionary keeps its entries
DefaultsAfter(base, params) == base

\* api/tts.py, JSON body: if '<name>' in data: params[name] = conv(data[name])
MergeJson(data) ==
    [n \in OptionNames |->
        IF data[n] = Absent THEN defaults[n]
        ELSE CASE n \in {"num_steps", "rng_seed", "speaker_kv_scale"} -> ToNumber(data[n])
               [] n = "speaker_kv_enable" -> ToBool(data[n])
               [] OTHER -> data[n]]

\* api/tts.py, form body: if form.getvalue('<name>'): params[name] = conv(...)
MergeForm(form) ==
    [n \in OptionNames |->
        IF form[n] = Absent \/ ~Truthy(form[n]) THEN defaults[n]
        ELSE CASE n \in {"num_steps", "rng_seed", "speaker_kv_scale"} -> ToNumber(form[n])
               [] n = "speaker_kv_enable" -> SpellsTrue(form[n])
               [] OTHER -> form[n]]

\* api/index.py: if key in data, for JSON and form bodies alike
MergeFlask(data) ==
    [n \in OptionNames |->
        IF data[n] = Absent THEN defaults[n]
        ELSE CASE n \in {"num_steps", "rng_seed", "speaker_kv_scale"} -> ToNumber(data[n])
               [] n = "speaker_kv_enable" ->
                      IF data[n].k = "bool" THEN data[n] ELSE SpellsTrue(data[n])
               [] OTHER -> data[n]]

\* the parameters the handler builds from the request body
MergeParams(variant, ctype, opts) ==
    CASE variant = "flask" -> MergeFlask(Wire(variant, ctype, opts))
      [] IsForm(variant, ctype) -> MergeForm(Wire(variant, ctype, opts))
      [] OTHER -> MergeJson(Wire(variant, ctype, opts))

\* a request without options; "user_tag" stands for an unrecognized option
NoOptions == [n \in OptionNames \cup {"user_tag"} |-> Absent]

----------------------------------------------------------------------------
(* Requests.  req[p] holds the inputs of the request slot p is serving,    *)
(* the handler's local variables and what the handler has done so far.     *)
(* A response is its status, the field of the JSON body that carries the   *)
(* message, and the message without the values interpolated into it.       *)

Idle ==
    [op |-> "none", pc |-> "idle", method |-> "GET", cred |-> NoCreds,
     key |-> NoKey,            \* candidate key the auth gate extracted
     ctype |-> "none",         \* Content-Type of the body
     idGiven |-> FALSE, rawId |-> <<>>,
     id |-> <<>>,              \* voice_id as the handler uses it
     nameGiven |-> FALSE, rawName |-> <<>>,
     name |-> <<>>,            \* name as the handler uses it
     hasAudio |-> FALSE, audio |-> <<>>, fileExt |-> "wav",
     hasText |-> FALSE, text |-> <<>>,
     urlGiven |-> FALSE,       \* speaker_audio_url present (Modal only)
     opts |-> NoOptions,       \* generation options in the request body
     fwdParams |-> DEFAULT_PARAMS, \* parameters handed to the inference service
     listed |-> {},            \* pathnames the listing call returned
     listOk |-> FALSE,         \* the listing call succeeded
     metaAtList |-> FALSE,     \* a metadata object of id existed at the listing
     url |-> <<>>,             \* audio_url / metadata URL resolved so far
     fwdText |-> <<>>,         \* text handed to the inference service
     fwdAudio |-> <<>>,        \* speaker reference handed to it
     tmp |-> "absent",         \* temporary file: absent, created, deleted
     storeCalls |-> 0, inferCalls |-> 0,
     status |-> 0, field |-> "", message |-> "", body |-> NoMeta]

\* the handler returns: the response is recorded and the slot is free again
Respond(p, r, status, field, message) ==
    /\ last' = [r EXCEPT !.pc = "done", !.status = status,
                         !.field = field, !.message = message]
    /\ req' = [req EXCEPT ![p] = Idle]

\* the handler goes on to its next blocking call; no response in this step
Continue(p, r, pc) == req' = [req EXCEPT ![p] = [r EXCEPT !.pc = pc]] /\ last' = Idle

\* a new request enters slot p, the first free slot (slots are
\* interchangeable), while the traffic's budget of requests lasts
Accept(p, D) ==
    /\ req[p].pc = "idle"
    /\ \A q \in 1..(p - 1) : req[q].pc # "idle"
    /\ served < D.budget
    /\ served' = served + 1

\* the auth gate at the head of every handler; TRUE when the request is let in
Gate(r) == verify_api_key(cfg, r.cred, r.method)

\* a storage check that always passes
StorageConfigured_Always(c) == TRUE

\* if not BLOB_TOKEN: the handlers' test of the storage credentials
StorageConfigured(c) == c.BLOB_TOKEN

WithKey(r) == [r EXCEPT !.key = CandidateKey(cfg.variant, r.cred, r.method)]

Deny(p, r) ==
    Respond(p, r, 401, AuthError(cfg.variant).field, AuthError(cfg.variant).message)

----------------------------------------------------------------------------
(* Voice registry: Create.  api/voices.py do_POST, api/index.py            *)
(* create_voice.  D is the set of inputs clients send in this exploration. *)

CreateRequest(D) ==
    {[Idle EXCEPT !.op = "create", !.method = "POST", !.cred = c, !.ctype = t,
                  !.idGiven = ig, !.rawId = IF ig THEN raw ELSE <<>>,
                  !.nameGiven = ng, !.rawName = IF ng THEN nm ELSE <<>>,
                  !.hasAudio = ha, !.audio = IF ha THEN a ELSE <<>>,
                  !.fileExt = e] :
        c \in D.creds, t \in D.ctypes, ig \in D.idGiven, raw \in D.rawIds,
        ng \in D.nameGiven, nm \in D.names, ha \in D.hasAudio, a \in D.audios,
        e \in D.fileExts}

\* a display name that is always the identifier
DisplayName_AlwaysId(r, voice_id) == voice_id

\* name = form.getvalue('name', voice_id), read before voice_id is sanitized
DisplayName(r, voice_id) == IF r.nameGiven THEN r.rawName ELSE voice_id

\* everything up to the first store call
CreateParse(p, r0, gen) ==
    LET r == WithKey(r0)
        voice_id == IF r.idGiven THEN r.rawId ELSE gen
        name == DisplayName(r, voice_id)
        clean == SanitizeId(voice_id)
    IN  IF ~Gate(r) THEN Deny(p, r)
        ELSE IF ~StorageConfigured(cfg)
        THEN Respond(p, r, 503, "error", "Storage not configured")
        ELSE IF cfg.variant = "serverless" /\ r.ctype # "multipart"
        THEN Respond(p, r, 400, "error", "Content-Type must be multipart/form-data")
        ELSE IF ~r.hasAudio
        THEN Respond(p, r, 400, "error", "No audio file provided")
        ELSE IF clean = <<>>
        THEN Respond(p, [r EXCEPT !.id = clean, !.name = name],
                     400, "error", "Invalid voice ID")
        ELSE Continue(p, [r EXCEPT !.id = clean, !.name = name], "c_list")

BeginCreate(p, D) ==
    /\ Accept(p, D)
    /\ cfg.variant \in {"serverless", "flask"}
    /\ \E r \in CreateRequest(D), gen \in GeneratedIds : CreateParse(p, r, gen)
    /\ UNCHANGED <<cfg, defaults, store, files, removed, registered>>

\* existence check: blob_list(prefix) inside try/except-pass
CreateList(p) ==
    /\ req[p].pc = "c_list"
    /\ \E ok \in BOOLEAN :
        LET existing == IF ok THEN blob_list(store, VoicePrefix(req[p].id)) ELSE {}
            r == [req[p] EXCEPT !.listed = existing, !.listOk = ok,
                                !.metaAtList = HasMeta(store, req[p].id),
                                !.storeCalls = @ + 1]
        IN  IF \E b \in existing : IsJson(b)
            THEN Respond(p, r, 409, "error", "Voice ID already exists")
            ELSE Continue(p, r, "c_put_audio")
    /\ UNCHANGED <<cfg, defaults, store, files, served, removed, registered>>

\* an audio upload whose failure is swallowed: the handler goes on regardless
CreatePutAudio_IgnoresFailure(p) ==
    /\ req[p].pc = "c_put_audio"
    /\ LET r == [req[p] EXCEPT !.storeCalls = @ + 1]
           path == Pathname(r.id, AudioExt(r.fileExt))
       IN  \/ /\ store' = blob_put(store, path, AudioObject(r.audio))
              /\ removed' = removed \ {r.id}
              /\ registered' = registered
              /\ Continue(p, [r EXCEPT !.url = UrlOf(path)], "c_put_meta")
           \/ /\ Continue(p, r, "c_put_meta")
              /\ UNCHANGED <<store, removed, registered>>
    /\ UNCHANGED <<cfg, defaults, files, served>>

\* blob_put of the audio object
CreatePutAudio(p) ==
    /\ req[p].pc = "c_put_audio"
    /\ LET r == [req[p] EXCEPT !.storeCalls = @ + 1]
           path == Pathname(r.id, AudioExt(r.fileExt))
       IN  \/ /\ store' = blob_put(store, path, AudioObject(r.audio))
              /\ removed' = removed \ {r.id}
              /\ registered' = registered
              /\ Continue(p, [r EXCEPT !.url = UrlOf(path)], "c_put_meta")
           \/ /\ Respond(p, r, 500, "error", "Failed to create voice")
              /\ UNCHANGED <<store, removed, registered>>
    /\ UNCHANGED <<cfg, defaults, files, served>>

\* blob_put of the metadata object, then 201
CreatePutMeta(p) ==
    /\ req[p].pc = "c_put_meta"
    /\ LET r == [req[p] EXCEPT !.storeCalls = @ + 1]
           metadata == [id |-> r.id, name |-> r.name, audio_url |-> r.url,
                        file_size |-> Len(r.audio)]
       IN  \/ /\ store' = blob_put(store, Pathname(r.id, "json"), MetaObject(metadata))
              /\ removed' = removed \ {r.id}
              /\ registered' = [i \in DOMAIN registered \cup {r.id} |->
                                    IF i = r.id THEN metadata ELSE registered[i]]
              /\ Respond(p, [r EXCEPT !.body = metadata], 201, "message",
                         "Voice registered successfully")
           \/ /\ Respond(p, r, 500, "error", "Failed to create voice")
              /\ UNCHANGED <<store, removed, registered>>
    /\ UNCHANGED <<cfg, defaults, files, served>>

----------------------------------------------------------------------------
(* Voice registry: Get and Delete.  api/voices/[id].py, api/index.py       *)
(* voice_detail / get_voice / delete_voice.                                *)

DetailRequest(D, op, method) ==
    {[Idle EXCEPT !.op = op, !.method = method, !.cred = c, !.id = i] :
        c \in D.creds, i \in D.pathIds}

DetailParse(p, r0, pc) ==
    LET r == WithKey(r0)
    IN  IF ~Gate(r) THEN Deny(p, r)
        ELSE IF ~StorageConfigured(cfg)
        THEN Respond(p, r, 503, "error", "Storage not configured")
        ELSE IF cfg.variant = "serverless" /\ r.id = <<>>
        THEN Respond(p, r, 400, "error", "Voice ID required")
        ELSE Continue(p, r, pc)

BeginGet(p, D) ==
    /\ Accept(p, D)
    /\ cfg.variant \in {"serverless", "flask"}
    /\ \E r \in DetailRequest(D, "get", "GET") : DetailParse(p, r, "g_list")
    /\ UNCHANGED <<cfg, defaults, store, files, removed, registered>>

\* blob_list(prefix), then the first .json pathname
GetList(p) ==
    /\ req[p].pc = "g_list"
    /\ \E ok \in BOOLEAN :
        LET blobs == IF ok THEN blob_list(store, VoicePrefix(req[p].id)) ELSE {}
            r == [req[p] EXCEPT !.listed = blobs, !.listOk = ok,
                                !.metaAtList = HasMeta(store, req[p].id),
                                !.storeCalls = @ + 1]
            found == {b \in blobs : IsJson(b)}
        IN  IF ~ok THEN Respond(p, r, 500, "error", "Failed to get voice")
            ELSE IF found = {}
            THEN Respond(p, r, 404, "error", "Voice not found")
            ELSE \E b \in found : Continue(p, [r EXCEPT !.url = UrlOf(b)], "g_fetch")
    /\ UNCHANGED <<cfg, defaults, store, files, served, removed, registered>>

\* blob_get(metadata url) and json.loads
GetFetch(p) ==
    /\ req[p].pc = "g_fetch"
    /\ LET r == [req[p] EXCEPT !.storeCalls = @ + 1]
           path == PathOfUrl(r.url)
       IN  \/ /\ path \in DOMAIN store
              /\ Respond(p, [r EXCEPT !.body = store[path].meta], 200, "", "")
           \/ /\ path \notin DOMAIN store
              \* the object is gone: HTTP 404 from the store
              /\ IF cfg.variant = "serverless"
                 THEN Respond(p, r, 404, "error", "Voice not found")
                 ELSE Respond(p, r, 500, "error", "Failed to get voice")
           \/ Respond(p, r, 500, "error", "Failed to get voice")
    /\ UNCHANGED <<cfg, defaults, store, files, served, removed, registered>>

BeginDelete(p, D) ==
    /\ Accept(p, D)
    /\ cfg.variant \in {"serverless", "flask"}
    /\ \E r \in DetailRequest(D, "delete", "DELETE") : DetailParse(p, r, "d_list")
    /\ UNCHANGED <<cfg, defaults, store, files, removed, registered>>

\* a Delete that looks for the metadata object, as Get does
DeleteList_RequiresMetadata(p) ==
    /\ req[p].pc = "d_list"
    /\ \E ok \in BOOLEAN :
        LET blobs == IF ok THEN blob_list(store, VoicePrefix(req[p].id)) ELSE {}
            r == [req[p] EXCEPT !.listed = blobs, !.listOk = ok,
                                !.metaAtList = HasMeta(store, req[p].id),
                                !.storeCalls = @ + 1]
        IN  IF ~ok THEN Respond(p, r, 500, "error", "Failed to delete voice")
            ELSE IF {b \in blobs : IsJson(b)} = {}
            THEN Respond(p, r, 404, "error", "Voice not found")
            ELSE Continue(p, r, "d_delete")
    /\ UNCHANGED <<cfg, defaults, store, files, served, removed, registered>>

\* blob_list(prefix); 404 when it returns nothing
DeleteList(p) ==
    /\ req[p].pc = "d_list"
    /\ \E ok \in BOOLEAN :
        LET blobs == IF ok THEN blob_list(store, VoicePrefix(req[p].id)) ELSE {}
            r == [req[p] EXCEPT !.listed = blobs, !.listOk = ok,
                                !.metaAtList = HasMeta(store, req[p].id),
                                !.storeCalls = @ + 1]
        IN  IF ~ok THEN Respond(p, r, 500, "error", "Failed to delete voice")
            ELSE IF blobs = {}
            THEN Respond(p, r, 404, "error", "Voice not found")
            ELSE Continue(p, r, "d_delete")
    /\ UNCHANGED <<cfg, defaults, store, files, served, removed, registered>>

\* blob_delete(urls of everything listed), then 200
DeleteBatch(p) ==
    /\ req[p].pc = "d_delete"
    /\ LET r == [req[p] EXCEPT !.storeCalls = @ + 1]
           urls == {UrlOf(b) : b \in r.listed}
       IN  \/ /\ store' = blob_delete(store, urls)
              /\ removed' = IF Pathname(r.id, "json") \in r.listed
                            THEN removed \cup {r.id} ELSE removed
              /\ registered' = IF Pathname(r.id, "json") \in r.listed
                               THEN [i \in DOMAIN registered \ {r.id} |-> registered[i]]
                               ELSE registered
              /\ Respond(p, r, 200, "message", "Voice deleted")
           \/ /\ Respond(p, r, 500, "error", "Failed to delete voice")
              /\ UNCHANGED <<store, removed, registered>>
    /\ UNCHANGED <<cfg, defaults, files, served>>

----------------------------------------------------------------------------
(* Voice registry: List.  api/voices.py do_GET, api/index.py list_voices   *)

ListRequest(D) ==
    {[Idle EXCEPT !.op = "list", !.method = "GET", !.cred = c] : c \in D.creds}

ListParse(p, r0) ==
    LET r == WithKey(r0)
    IN  IF ~Gate(r) THEN Deny(p, r)
        ELSE IF ~StorageConfigured(cfg)
        THEN Respond(p, r, 200, "note", "Storage not configured")
        ELSE Continue(p, r, "l_list")

BeginList(p, D) ==
    /\ Accept(p, D)
    /\ cfg.variant \in {"serverless", "flask"}
    /\ \E r \in ListRequest(D) : ListParse(p, r)
    /\ UNCHANGED <<cfg, defaults, store, files, removed, registered>>

\* blob_list('voices/') and one blob_get per .json pathname; a metadata
\* object whose fetch or parse fails is skipped, so the voices returned are
\* any subset of the metadata objects listed
ListScan(p) ==
    /\ req[p].pc = "l_list"
    /\ \E ok \in BOOLEAN :
        LET blobs == IF ok THEN blob_list(store, <<"voices/">>) ELSE {}
        IN  \E voices \in SUBSET {b \in blobs : IsJson(b)} :
        LET r == [req[p] EXCEPT !.listed = voices,
                                !.listOk = ok, !.storeCalls = @ + 1]
        IN  IF ok THEN Respond(p, r, 200, "voices", "")
            ELSE Respond(p, r, 500, "error", "Failed to list voices")
    /\ UNCHANGED <<cfg, defaults, store, files, served, removed, registered>>

----------------------------------------------------------------------------
(* TTS request proxy.  api/tts.py do_POST, api/index.py tts,               *)
(* modal_app.py tts and EchoTTS.generate.                                  *)

SpeakerMarker == <<"[", "S">>
DefaultMarker == <<"[", "S", "1", "]", " ">>

\* the marker test without strip()
PrepareText_NoStrip(text) ==
    IF ~startswith(text, SpeakerMarker) THEN DefaultMarker \o text ELSE text

\* if not text.strip().startswith('[S'): text = f'[S1] {text}'
PrepareText(text) ==
    IF ~startswith(strip(text), SpeakerMarker) THEN DefaultMarker \o text ELSE text

TempFile == <<"tmpfile">>
FetchedBytes == <<1>>

\* Python truthiness of text, voice_id and audio_data
TextGiven(r) == r.hasText /\ r.text # <<>>
VoiceGiven(r) == r.idGiven /\ r.rawId # <<>>
AudioGiven(r) == r.hasAudio /\ r.audio # <<>>

TtsRequest(D) ==
    {[Idle EXCEPT !.op = "tts", !.method = "POST", !.cred = c, !.ctype = t,
                  !.hasText = ht, !.text = IF ht THEN tx ELSE <<>>,
                  !.idGiven = ig, !.rawId = IF ig THEN v ELSE <<>>,
                  !.hasAudio = ha, !.audio = IF ha THEN a ELSE <<>>,
                  !.urlGiven = ug, !.opts = o] :
        c \in D.creds, t \in D.ctypes, ht \in D.hasText, tx \in D.texts,
        ig \in D.idGiven, v \in D.voiceIds, ha \in D.hasAudio, a \in D.audios,
        ug \in D.urlGiven, o \in D.opts}

\* text normalisation and the choice between temp file and stored reference
Prepared(p, r0) ==
    LET r == [r0 EXCEPT !.fwdText = PrepareText(r0.text)]
    IN  IF AudioGiven(r) THEN Continue(p, r, "t_tmp")
        ELSE Continue(p, [r EXCEPT !.fwdAudio = r.url], "t_predict")

\* the handler without its missing-speaker check
SourceMissing_Never(r) == FALSE

\* elif not audio_data (and not audio_url, which is still unset there)
SourceMissing(r) == ~AudioGiven(r) /\ r.url = <<>>

\* api/tts.py merges the parameters while it reads the body, ahead of the
\* text check; api/index.py merges them after the text check.  A conversion
\* that raises ends the request in the handler's outer except.
TtsParse(p, r0) ==
    LET q == WithKey(r0)
        params == MergeParams(cfg.variant, q.ctype, q.opts)
        raises == \E n \in OptionNames : params[n] = Raised
        r == [q EXCEPT !.fwdParams = params]
    IN  IF ~Gate(q) THEN Deny(p, q)
        ELSE IF ~cfg.GRADIO_AVAILABLE
        THEN Respond(p, q, 503, "error", "Gradio client not available")
        ELSE IF cfg.variant = "serverless" /\ q.ctype \notin {"json", "multipart"}
        THEN Respond(p, q, 400, "error", "Content-Type must be application/json or multipart/form-data")
        ELSE IF cfg.variant = "serverless" /\ raises
        THEN Respond(p, q, 500, "error", "TTS generation failed")
        ELSE IF ~TextGiven(q)
        THEN Respond(p, q, 400, "error", "Text is required")
        ELSE IF raises
        THEN Respond(p, q, 500, "error", "TTS generation failed")
        ELSE IF VoiceGiven(r) /\ StorageConfigured(cfg)
        THEN Continue(p, [r EXCEPT !.id = r.rawId], "t_list")
        ELSE IF SourceMissing(r)
        THEN Respond(p, r, 400, "error", "Either voice_id or audio must be provided")
        ELSE Prepared(p, r)

\* the request gets as far as building its parameters
ReachesMerge(r) ==
    /\ Gate(r) /\ cfg.GRADIO_AVAILABLE
    /\ IF cfg.variant = "serverless" THEN r.ctype \in {"json", "multipart"}
       ELSE TextGiven(r)

BeginTts(p, D) ==
    /\ Accept(p, D)
    /\ cfg.variant \in {"serverless", "flask"}
    /\ \E r \in TtsRequest(D) :
        /\ ~r.urlGiven
        /\ TtsParse(p, r)
        /\ defaults' = IF ReachesMerge(r)
                       THEN DefaultsAfter(defaults,
                                MergeParams(cfg.variant, r.ctype, r.opts))
                       ELSE defaults
    /\ UNCHANGED <<cfg, store, files, removed, registered>>

\* voice resolution: blob_list(prefix) and the first .json pathname
TtsList(p) ==
    /\ req[p].pc = "t_list"
    /\ \E ok \in BOOLEAN :
        LET blobs == IF ok THEN blob_list(store, VoicePrefix(req[p].id)) ELSE {}
            r == [req[p] EXCEPT !.listed = blobs, !.listOk = ok,
                                !.metaAtList = HasMeta(store, req[p].id),
                                !.storeCalls = @ + 1]
            found == {b \in blobs : IsJson(b)}
        IN  IF ~ok THEN Respond(p, r, 500, "error", "TTS generation failed")
            ELSE IF found = {}
            THEN Respond(p, r, 404, "error", "Voice not found")
            ELSE \E b \in found : Continue(p, [r EXCEPT !.url = UrlOf(b)], "t_fetch")
    /\ UNCHANGED <<cfg, defaults, store, files, served, removed, registered>>

\* voice resolution: fetch of the metadata object, audio_url out of it
TtsFetch(p) ==
    /\ req[p].pc = "t_fetch"
    /\ LET r == [req[p] EXCEPT !.storeCalls = @ + 1]
           path == PathOfUrl(r.url)
       IN  \/ /\ path \in DOMAIN store
              /\ LET audio_url == store[path].meta.audio_url
                 IN  IF audio_url # <<>>
                     THEN Prepared(p, [r EXCEPT !.url = audio_url])
                     ELSE IF cfg.variant = "serverless"
                     THEN Respond(p, r, 500, "error", "Voice has no audio URL")
                     ELSE Respond(p, r, 404, "error", "Voice not found")
           \/ Respond(p, r, 500, "error", "TTS generation failed")
    /\ UNCHANGED <<cfg, defaults, store, files, served, removed, registered>>

\* Modal: parse, then the speaker audio from the upload or from a URL
ModalParse(p, r0) ==
    LET r == WithKey(r0)
    IN  IF ~Gate(r) THEN Deny(p, r)
        ELSE IF ~TextGiven(r)
        THEN Respond(p, r, 400, "detail", "text required")
        ELSE IF AudioGiven(r) THEN Continue(p, r, "t_tmp")
        ELSE IF r.urlGiven THEN Continue(p, r, "m_fetch")
        ELSE IF r.ctype = "multipart"
        THEN Respond(p, r, 400, "detail", "audio file or speaker_audio_url required")
        ELSE Respond(p, r, 400, "detail", "audio_base64 or speaker_audio_url required")

BeginModalTts(p, D) ==
    /\ Accept(p, D)
    /\ cfg.variant = "modal"
    /\ \E r \in TtsRequest(D) : ~r.idGiven /\ ModalParse(p, r)
    /\ UNCHANGED <<cfg, defaults, store, files, removed, registered>>

\* Modal: http_requests.get(speaker_audio_url)
ModalFetch(p) ==
    /\ req[p].pc = "m_fetch"
    /\ \/ Continue(p, [req[p] EXCEPT !.hasAudio = TRUE, !.audio = FetchedBytes], "t_tmp")
       \/ Respond(p, req[p], 500, "detail", "Internal Server Error")
    /\ UNCHANGED <<cfg, defaults, store, files, served, removed, registered>>

Failure(p, r) ==
    IF cfg.variant = "modal"
    THEN Respond(p, r, 500, "detail", "Internal Server Error")
    ELSE Respond(p, r, 500, "error", "TTS generation failed")

\* NamedTemporaryFile(delete=False), write, close: ahead of the try/finally.
\* In the Modal deployment this is the head of EchoTTS.generate, so the
\* inference service has been invoked by then.
TtsMaterialize(p) ==
    /\ req[p].pc = "t_tmp"
    /\ LET r == IF cfg.variant = "modal"
                THEN [req[p] EXCEPT !.inferCalls = @ + 1]
                ELSE req[p]
       IN  \/ \* the file is created and written
              /\ files' = files + 1
              /\ Continue(p, [r EXCEPT !.tmp = "created", !.fwdAudio = TempFile,
                                       !.fwdText = IF cfg.variant = "modal"
                                                   THEN PrepareText(r.text) ELSE @],
                          "t_predict")
           \/ \* the file is created, the write raises
              /\ files' = files + 1
              /\ Failure(p, [r EXCEPT !.tmp = "created"])
           \/ \* the file cannot be created
              /\ files' = files
              /\ Failure(p, r)
    /\ UNCHANGED <<cfg, defaults, store, served, removed, registered>>

InferenceOutcomes == {"audio", "no_audio", "raises", "read_fails"}

\* an inference step that calls the service a second time when the call raises
TtsPredict_Retries(p) ==
    /\ req[p].pc = "t_predict"
    /\ \E out \in InferenceOutcomes :
        LET calls == IF out = "raises" THEN 2 ELSE 1
            called == IF cfg.variant = "modal" THEN req[p]
                      ELSE [req[p] EXCEPT !.inferCalls = @ + calls]
            r == IF called.tmp = "created"
                 THEN [called EXCEPT !.tmp = "deleted"] ELSE called
        IN  /\ files' = IF called.tmp = "created" THEN files - 1 ELSE files
            /\ CASE out = "audio" -> Respond(p, r, 200, "audio/wav", "")
                 [] out = "no_audio" /\ cfg.variant # "modal" ->
                        Respond(p, r, 500, "error", "No audio generated")
                 [] OTHER -> Failure(p, r)
    /\ UNCHANGED <<cfg, defaults, store, served, removed, registered>>

\* try: Client(HF_SPACE).predict(...), read the result; finally: os.unlink
TtsPredict(p) ==
    /\ req[p].pc = "t_predict"
    /\ \E out \in InferenceOutcomes :
        LET called == IF cfg.variant = "modal" THEN req[p]
                      ELSE [req[p] EXCEPT !.inferCalls = @ + 1]
            r == IF called.tmp = "created"
                 THEN [called EXCEPT !.tmp = "deleted"] ELSE called
        IN  /\ files' = IF called.tmp = "created" THEN files - 1 ELSE files
            /\ CASE out = "audio" -> Respond(p, r, 200, "audio/wav", "")
                 [] out = "no_audio" /\ cfg.variant # "modal" ->
                        Respond(p, r, 500, "error", "No audio generated")
                 [] OTHER -> Failure(p, r)
    /\ UNCHANGED <<cfg, defaults, store, served, removed, registered>>

----------------------------------------------------------------------------
(* Specifications.  Each explores one class of client traffic; the        *)
(* handlers are the same in all of them.                                   *)

Configs(variants, keys, tokens, gradio) ==
    [variant : variants, API_KEY : keys, BLOB_TOKEN : tokens,
     GRADIO_AVAILABLE : gradio]

InitWith(C) ==
    /\ cfg \in C
    /\ store = EmptyStore
    /\ req = [p \in Clients |-> Idle]
    /\ last = Idle
    /\ files = 0
    /\ served = 0
    /\ removed = {}
    /\ registered = [i \in {} |-> NoMeta]
    /\ defaults = DEFAULT_PARAMS

NoInputs ==
    [budget |-> MaxRequests, creds |-> {NoCreds}, ctypes |-> {"multipart"}, idGiven |-> {TRUE},
     rawIds |-> {<<"a">>}, nameGiven |-> {FALSE}, names |-> {<<>>},
     hasAudio |-> {TRUE}, audios |-> {<<1>>}, fileExts |-> {"wav"},
     pathIds |-> {<<"a">>}, hasText |-> {TRUE}, texts |-> {<<"x">>},
     voiceIds |-> {<<"a">>}, urlGiven |-> {FALSE}, opts |-> {NoOptions}]

\* Registry traffic: concurrent Create, Get, Delete and List on one id,
\* open mode, either Vercel deployment.
RegistryInputs ==
    [NoInputs EXCEPT !.audios = {<<1>>, <<1, 2>>},
                     !.fileExts = {"wav", "mp3"}]

Init == InitWith(Configs({"serverless", "flask"}, {""}, BOOLEAN, {TRUE}))

Next ==
    \E p \in Clients :
        \/ BeginCreate(p, RegistryInputs)
        \/ CreateList(p)
        \/ CreatePutAudio(p)
        \/ CreatePutMeta(p)
        \/ BeginGet(p, RegistryInputs)
        \/ GetList(p)
        \/ GetFetch(p)
        \/ BeginDelete(p, RegistryInputs)
        \/ DeleteList(p)
        \/ DeleteBatch(p)
        \/ BeginList(p, RegistryInputs)
        \/ ListScan(p)

Spec == Init /\ [][Next]_vars

\* TTS traffic, one request at a time, over a store that holds voice "a" or
\* nothing; all three deployments, with and without storage credentials and
\* the inference client library.
TtsInputs ==
    [NoInputs EXCEPT !.ctypes = {"json", "other"},
                     !.hasText = BOOLEAN, !.idGiven = BOOLEAN,
                     !.hasAudio = BOOLEAN, !.audios = {<<>>, <<1>>},
                     !.urlGiven = BOOLEAN]

InitTts == InitWith(Configs({"serverless", "flask", "modal"}, {""}, BOOLEAN, BOOLEAN))

NextTts ==
    \E p \in {1} :
        \/ BeginCreate(p, NoInputs)
        \/ CreateList(p)
        \/ CreatePutAudio(p)
        \/ CreatePutMeta(p)
        \/ BeginTts(p, TtsInputs)
        \/ TtsList(p)
        \/ TtsFetch(p)
        \/ BeginModalTts(p, TtsInputs)
        \/ ModalFetch(p)
        \/ TtsMaterialize(p)
        \/ TtsPredict(p)

SpecTts == InitTts /\ [][NextTts]_vars

\* Text normalisation: TTS requests with inline audio and every text over the
\* marker characters, whitespace and a letter.
TextAlphabet == {"[", "S", " ", "x"}
Texts == SeqsUpTo(TextAlphabet, MaxTextLen)

TextInputs ==
    [NoInputs EXCEPT !.budget = MaxRequests - 2, !.ctypes = {"json"},
                     !.idGiven = {FALSE}, !.texts = Texts]

InitText == InitWith(Configs({"serverless", "flask", "modal"}, {""}, {TRUE}, {TRUE}))

NextText ==
    \E p \in {1} :
        \/ BeginTts(p, TextInputs)
        \/ BeginModalTts(p, TextInputs)
        \/ TtsMaterialize(p)
        \/ TtsPredict(p)

SpecText == InitText /\ [][NextText]_vars

\* Auth traffic: every endpoint, with every combination of the three places
\* a key can be presented in, with and without a configured secret.
AuthInputs ==
    [NoInputs EXCEPT !.budget = MaxRequests - 1, !.creds = Creds,
                     !.idGiven = BOOLEAN]

InitAuth == InitWith(Configs({"serverless", "flask", "modal"}, {"", Secret}, {TRUE}, {TRUE}))

NextAuth ==
    \E p \in {1} :
        \/ BeginList(p, AuthInputs)
        \/ ListScan(p)
        \/ BeginCreate(p, AuthInputs)
        \/ CreateList(p)
        \/ CreatePutAudio(p)
        \/ CreatePutMeta(p)
        \/ BeginGet(p, AuthInputs)
        \/ GetList(p)
        \/ GetFetch(p)
        \/ BeginDelete(p, AuthInputs)
        \/ DeleteList(p)
        \/ DeleteBatch(p)
        \/ BeginTts(p, AuthInputs)
        \/ TtsList(p)
        \/ TtsFetch(p)
        \/ BeginModalTts(p, AuthInputs)
        \/ TtsMaterialize(p)
        \/ TtsPredict(p)

SpecAuth == InitAuth /\ [][NextAuth]_vars

\* Identifier traffic: Create and Get, one request at a time, with every
\* identifier over a lowercase letter, an uppercase letter, an underscore, a
\* non-ASCII letter and a punctuation mark, or with no identifier at all.
IdAlphabet == {"a", "A", "_", "e_acute", "!"}
RawIds == SeqsUpTo(IdAlphabet, MaxIdLen)

IdInputs ==
    [NoInputs EXCEPT !.budget = MaxRequests - 1,
                     !.idGiven = BOOLEAN, !.rawIds = RawIds,
                     !.nameGiven = BOOLEAN, !.names = {<<"A", "l">>},
                     !.pathIds = {SanitizeId(raw) : raw \in RawIds} \ {<<>>}]

InitIds == InitWith(Configs({"serverless", "flask"}, {""}, {TRUE}, {TRUE}))

NextIds ==
    \E p \in {1} :
        \/ BeginCreate(p, IdInputs)
        \/ CreateList(p)
        \/ CreatePutAudio(p)
        \/ CreatePutMeta(p)
        \/ BeginGet(p, IdInputs)
        \/ GetList(p)
        \/ GetFetch(p)

SpecIds == InitIds /\ [][NextIds]_vars

\* Round-trip traffic: concurrent Creates that leave the id to the server, each
\* with one of two names, and Gets and Deletes of the generated id.
RoundTripInputs ==
    [NoInputs EXCEPT !.idGiven = {FALSE}, !.nameGiven = {TRUE},
                     !.names = {<<"A", "l">>, <<"B">>},
                     !.pathIds = {SanitizeId(g) : g \in GeneratedIds}]

InitRoundTrip == InitWith(Configs({"serverless", "flask"}, {""}, {TRUE}, {TRUE}))

NextRoundTrip ==
    \E p \in Clients :
        \/ BeginCreate(p, RoundTripInputs)
        \/ CreateList(p)
        \/ CreatePutAudio(p)
        \/ CreatePutMeta(p)
        \/ BeginGet(p, RoundTripInputs)
        \/ GetList(p)
        \/ GetFetch(p)
        \/ BeginDelete(p, RoundTripInputs)
        \/ DeleteList(p)
        \/ DeleteBatch(p)

SpecRoundTrip == InitRoundTrip /\ [][NextRoundTrip]_vars

\* Create traffic: concurrent Creates of one id with audio of two lengths and
\* two file extensions, and Gets of it; uploads may fail and the existence
\* check may fail, so two Creates of the id can both go on to upload.
CreateInputs ==
    [NoInputs EXCEPT !.audios = {<<1>>, <<1, 2>>},
                     !.fileExts = {"wav", "mp3"}]

InitCreates == InitWith(Configs({"serverless", "flask"}, {""}, {TRUE}, {TRUE}))

NextCreates ==
    \E p \in Clients :
        \/ BeginCreate(p, CreateInputs)
        \/ CreateList(p)
        \/ CreatePutAudio(p)
        \/ CreatePutMeta(p)
        \/ BeginGet(p, CreateInputs)
        \/ GetList(p)
        \/ GetFetch(p)

SpecCreates == InitCreates /\ [][NextCreates]_vars

\* Deletion traffic: concurrent Create, Get and Delete on two ids of which one
\* is a prefix of the other
PrefixIds == {<<"a">>, <<"a", "b">>}

DeleteInputs == [NoInputs EXCEPT !.rawIds = PrefixIds, !.pathIds = PrefixIds]

InitDeletes == InitWith(Configs({"serverless", "flask"}, {""}, {TRUE}, {TRUE}))

NextDeletes ==
    \E p \in Clients :
        \/ BeginCreate(p, DeleteInputs)
        \/ CreateList(p)
        \/ CreatePutAudio(p)
        \/ CreatePutMeta(p)
        \/ BeginGet(p, DeleteInputs)
        \/ GetList(p)
        \/ GetFetch(p)
        \/ BeginDelete(p, DeleteInputs)
        \/ DeleteList(p)
        \/ DeleteBatch(p)

SpecDeletes == InitDeletes /\ [][NextDeletes]_vars

\* Parameter traffic: TTS requests with inline audio, as JSON and as form
\* data, carrying any subset of the recognized options (falsy values
\* included) and possibly an unrecognized one.
OptionMaps ==
    [preset_name : {Absent, Val("str", ""), Val("str", "p")},
     num_steps : {Absent, Val("num", "0"), Val("num", "5")},
     rng_seed : {Absent, Val("num", "0")},
     speaker_kv_enable : {Absent, Val("bool", "false"), Val("bool", "true")},
     speaker_kv_scale : {Absent, Val("num", "0")},
     user_tag : {Absent, Val("str", "p")}]

ParamInputs ==
    [NoInputs EXCEPT !.budget = MaxRequests - 2, !.ctypes = {"json", "multipart"},
                     !.idGiven = {FALSE}, !.opts = OptionMaps]

InitParams == InitWith(Configs({"serverless", "flask"}, {""}, {TRUE}, {TRUE}))

NextParams ==
    \E p \in {1} :
        \/ BeginTts(p, ParamInputs)
        \/ TtsMaterialize(p)
        \/ TtsPredict(p)

SpecParams == InitParams /\ [][NextParams]_vars

\* Parameter traffic of several requests in a row: each recognized option is
\* either left out or overridden with a value that differs from its default
OverrideMaps ==
    {o \in OptionMaps :
        /\ o.user_tag = Absent
        /\ \A n \in OptionNames :
            o[n] = Absent \/ o[n] # DEFAULT_PARAMS[n]}

DefaultsInputs ==
    [ParamInputs EXCEPT !.budget = MaxRequests - 1, !.opts = OverrideMaps]

InitDefaults == InitWith(Configs({"serverless", "flask"}, {""}, {TRUE}, {TRUE}))

NextDefaults ==
    \E p \in {1} :
        \/ BeginTts(p, DefaultsInputs)
        \/ TtsMaterialize(p)
        \/ TtsPredict(p)

SpecDefaults == InitDefaults /\ [][NextDefaults]_vars

----------------------------------------------------------------------------
(* Claims *)

Done == last.pc = "done"
Vercel == cfg.variant \in {"serverless", "flask"}

\* C1: a Create on an id whose metadata object exists in the store answers 409
\* and makes no upload, so the voice's audio and metadata objects stay as they
\* were; also when the existence-check listing call fails.
C1_ConflictKeepsVoice ==
    /\ (Done /\ last.op = "create" /\ last.metaAtList)
            => (last.status = 409 /\ last.storeCalls = 1)
    /\ \A p \in Clients :
        (req[p].op = "create" /\ req[p].metaAtList)
            => req[p].pc \notin {"c_put_audio", "c_put_meta"}

\* C2 as stated: Delete(id) answers 404 when no voice (no metadata object) of
\* that id exists; a successful Delete of an existing voice leaves none of its
\* objects behind, and a Get(id) after it, with no Create upload in between,
\* answers 404.
C2_DeleteThenGetNotFound ==
    /\ (Done /\ last.op = "delete" /\ last.listOk /\ ~last.metaAtList)
            => last.status = 404
    /\ (Done /\ last.op = "delete" /\ last.status = 200)
            => \A b \in last.listed : b \notin DOMAIN store
    /\ \A id \in removed : ~HasMeta(store, id)
    /\ (Done /\ last.op = "get" /\ last.listOk /\ last.storeCalls = 1
             /\ last.id \in removed)
            => last.status = 404

\* C2 amended: a Delete(id) whose listing succeeds answers 404 exactly when no
\* object at all (audio or metadata) is stored under the id's prefix; a Delete
\* that answers success has removed every object its listing returned; and
\* once a successful Delete has listed the metadata object, no metadata object
\* of that id exists, and every Get(id) whose listing succeeds answers 404,
\* until a Create uploads to that id again.
C2_DeleteRemovesListed ==
    /\ (Done /\ last.op = "delete" /\ last.listOk)
            => (last.status = 404 <=> last.listed = {})
    /\ (Done /\ last.op = "delete" /\ last.status = 200)
            => (last.listed # {} /\ \A b \in last.listed : b \notin DOMAIN store)
    /\ \A id \in removed : ~HasMeta(store, id)
    /\ (Done /\ last.op = "get" /\ last.listOk /\ last.storeCalls = 1
             /\ last.id \in removed)
            => last.status = 404

\* a Get that follows the successful Delete of an existing voice answers 404
C2_Witness ==
    /\ Done /\ last.op = "get" /\ last.listOk
    /\ last.id \in removed /\ last.status = 404

\* C3: a TTS request whose voice_id resolves to no existing voice answers 404
\* and never invokes the inference service, with or without inline audio and
\* with or without storage credentials.
C3_UnknownVoiceNotFound ==
    (/\ Done /\ last.op = "tts" /\ Vercel /\ cfg.GRADIO_AVAILABLE
     /\ last.ctype = "json" /\ last.hasText /\ last.text # <<>>
     /\ last.idGiven /\ last.rawId # <<>>
     /\ ~HasMeta(store, last.rawId)
     /\ (last.storeCalls = 0 \/ last.listOk))
        => (last.status = 404 /\ last.inferCalls = 0)

\* C4: no TTS request ends with its temporary audio file still on disk,
\* whatever the exit path; the only files on disk belong to requests still
\* being served.
C4_TempFileRemoved ==
    /\ Done => last.tmp # "created"
    /\ files = Cardinality({p \in Clients : req[p].tmp = "created"})

\* the text-begins-with-the-marker test of the claim: no stripping
BeginsWithMarker(text) == Len(text) >= 2 /\ text[1] = "[" /\ text[2] = "S"

\* the marker follows leading whitespace only
MarkerAfterWhitespace(text) ==
    \E i \in 1..(Len(text) - 1) :
        /\ text[i] = "[" /\ text[i + 1] = "S"
        /\ \A j \in 1..(i - 1) : text[j] \in Whitespace

Forwarded(r) == r.op = "tts" /\ (r.pc = "t_predict" \/ r.status = 200)

\* C5 as stated: the forwarded text is "[S1] " + text unless the text itself
\* starts with "[S"; a text with whitespace before "[S" is prefixed.
C5_PrefixUnlessMarker ==
    \A r \in {last} \cup {req[p] : p \in Clients} :
        Forwarded(r) =>
            r.fwdText = IF BeginsWithMarker(r.text) THEN r.text
                        ELSE DefaultMarker \o r.text

\* C5 amended: the forwarded text is the request text unchanged when "[S"
\* follows the text's leading whitespace (possibly none), and "[S1] " + text
\* otherwise.
C5_PrefixUnlessMarkerAfterStrip ==
    \A r \in {last} \cup {req[p] : p \in Clients} :
        Forwarded(r) =>
            r.fwdText = IF MarkerAfterWhitespace(r.text) THEN r.text
                        ELSE DefaultMarker \o r.text

\* a text with whitespace before the marker has been forwarded unchanged
C5_Witness ==
    /\ Done /\ last.status = 200
    /\ last.text = <<" ", "[", "S">> /\ last.fwdText = last.text

\* C6: a TTS request let in by the Vercel handlers' gate (auth, client library)
\* with a non-empty text, no voice_id and no inline audio answers 400 without
\* invoking the inference service.
C6_NoSpeakerSource ==
    \A r \in {last} \cup {req[p] : p \in Clients} :
        (/\ r.op = "tts" /\ Vercel /\ cfg.GRADIO_AVAILABLE
         /\ verify_api_key(cfg, r.cred, r.method)
         /\ r.hasText /\ r.text # <<>>
         /\ ~(r.idGiven /\ r.rawId # <<>>)
         /\ ~(r.hasAudio /\ r.audio # <<>>))
            => (r.pc = "done" /\ r.status = 400 /\ r.inferCalls = 0)

C6_Witness ==
    /\ Done /\ last.op = "tts" /\ Vercel /\ last.ctype = "json"
    /\ last.hasText /\ last.text # <<>> /\ ~last.idGiven /\ ~last.hasAudio
    /\ last.status = 400
    /\ last.message = "Either voice_id or audio must be provided"

\* C7: with no secret configured every request is let in; with a secret
\* configured a request is let in exactly when the candidate key taken from
\* it equals the secret, so a request with no key is answered 401.
C7_AuthDecision ==
    Done => (last.status # 401 <=> (cfg.API_KEY = "" \/ last.key = cfg.API_KEY))

C7_Witness ==
    /\ Done /\ cfg.API_KEY = Secret
    /\ last.key = Secret /\ last.cred.query = WrongKey /\ last.status # 401

\* C8: with a secret configured, a request without any key is answered 401
\* {"error": "Invalid or missing API key"} by every protected endpoint, before
\* any store or inference call.
C8_MissingKey401 ==
    \A r \in {last} \cup {req[p] : p \in Clients} :
        (r.op # "none" /\ cfg.API_KEY # "" /\ r.cred = NoCreds)
            => /\ r.pc = "done" /\ r.status = 401
               /\ r.field = "error" /\ r.message = "Invalid or missing API key"
               /\ r.storeCalls = 0 /\ r.inferCalls = 0

\* the candidate key as the interface describes it: X-API-Key, then the Bearer
\* token, then the api_key query parameter on GET requests only
DocumentedKey(cred, method) ==
    IF cred.xkey # NoKey THEN cred.xkey
    ELSE IF cred.bearer # NoKey THEN cred.bearer
    ELSE IF method = "GET" THEN cred.query
    ELSE NoKey

\* C9: a request is let in exactly when the first present source in the order
\* X-API-Key, Bearer token, api_key query parameter (GET only) holds the
\* secret; the right key in a lower source does not make up for a wrong key
\* in a higher one.
C9_KeyPriority ==
    (Done /\ cfg.API_KEY # "")
        => (last.status # 401 <=> DocumentedKey(last.cred, last.method) = cfg.API_KEY)

AllowedIdChars == AsciiLower \cup AsciiDigit \cup {"-", "_"}

\* C10: the id a Create works with after sanitization holds only characters
\* of [a-z0-9_-], and a Create whose sanitized id is empty answers 400
\* without a store call.
C10_SanitizedIdCharset ==
    /\ \A r \in {last} \cup {req[p] : p \in Clients} :
        r.op = "create" => \A i \in 1..Len(r.id) : r.id[i] \in AllowedIdChars
    /\ \A path \in DOMAIN store :
        \A i \in 2..(Len(path) - 2) : path[i] \in AllowedIdChars
    /\ (Done /\ last.op = "create" /\ last.hasAudio /\ last.id = <<>>)
            => (last.status = 400 /\ last.storeCalls = 0)

\* C11: a Create with audio and a name but no id, whose generated id is not
\* taken and whose uploads succeed, answers 201 with an 8-character id and the
\* given name; a Get of an id whose latest Create answered 201, with no
\* successful Delete of it since and no failing store call, answers 200 with
\* the name of that Create's response and a non-empty audio_url.
C11_CreateGetRoundTrip ==
    /\ (/\ Done /\ last.op = "create" /\ ~last.idGiven /\ last.nameGiven
         /\ last.hasAudio /\ ~last.metaAtList /\ last.status # 500)
            => /\ last.status = 201
               /\ Len(last.id) = 8 /\ last.body.id = last.id
               /\ last.body.name = last.rawName
    /\ (/\ Done /\ last.op = "get" /\ last.id \in DOMAIN registered
         /\ last.listOk /\ last.status # 500)
            => /\ last.status = 200
               /\ last.body.name = registered[last.id].name
               /\ last.body.audio_url # <<>>

\* a Get has returned the name given to the Create that generated its id
C11_Witness ==
    /\ Done /\ last.op = "get" /\ last.status = 200
    /\ Len(last.id) = 8 /\ last.id \in DOMAIN registered
    /\ last.body.name = <<"B">> /\ last.body.audio_url # <<>>

\* C12: in every reachable store state, under any interleaving of concurrent
\* Creates and Deletes, the audio object that a stored metadata object's
\* audio_url references exists.
C12_MetadataHasAudio ==
    \A path \in DOMAIN store :
        store[path].json => PathOfUrl(store[path].meta.audio_url) \in DOMAIN store

\* C13: a List that is let in answers 200 with no voices and a note, not an
\* error, when storage is not configured and also when its listing call to
\* the store fails.
C13_ListDegradesToEmpty ==
    (/\ Done /\ last.op = "list"
     /\ (~cfg.BLOB_TOKEN \/ (last.storeCalls = 1 /\ ~last.listOk)))
        => (last.status = 200 /\ last.field = "note" /\ last.listed = {})

\* C14: with no storage credentials, every Create, Get and Delete that is let
\* in answers 503 at once, without a call to the store, and the store never
\* changes.
C14_Unconfigured503 ==
    ~cfg.BLOB_TOKEN =>
        /\ store = EmptyStore
        /\ \A r \in {last} \cup {req[p] : p \in Clients} :
            (r.op \in {"create", "get", "delete"}
                /\ verify_api_key(cfg, r.cred, r.method))
                => (r.pc = "done" /\ r.status = 503 /\ r.storeCalls = 0)

C14_Witness ==
    /\ ~cfg.BLOB_TOKEN /\ Done /\ last.op = "delete" /\ last.status = 503
    /\ served = MaxRequests

MetaPaths(s) == {x \in DOMAIN s : s[x].json}

\* the audio object a metadata object references is in store s
References(s, m) == m.audio_url # <<>> /\ PathOfUrl(m.audio_url) \in DOMAIN s

\* a step that writes the metadata object at path j: it is the metadata upload
\* of a Create of that id whose audio upload has completed, and the metadata
\* references the audio object that Create uploaded
MetaWrittenAfterAudio(j) ==
    \E p \in Clients :
        /\ req[p].op = "create" /\ req[p].pc = "c_put_meta"
        /\ req[p].storeCalls = 2
        /\ j = Pathname(req[p].id, "json")
        /\ References(store, [audio_url |-> req[p].url])
        /\ store'[j].meta.audio_url = req[p].url

\* C15: within a Create the metadata upload is issued only after the audio
\* upload has completed, never after a failed one; with Creates only, every
\* metadata object in the store references an audio object that is there, so
\* a failed Create leaves at most an audio object without metadata.
C15_AudioBeforeMetadata ==
    /\ [](\A j \in MetaPaths(store) : References(store, store[j].meta))
    /\ [](\A p \in Clients :
            (req[p].op = "create" /\ req[p].pc = "c_put_meta")
                => References(store, [audio_url |-> req[p].url]))
    /\ [][\A j \in MetaPaths(store') :
            (j \notin MetaPaths(store) \/ store'[j] # store[j])
                => MetaWrittenAfterAudio(j)]_vars

\* a Create has failed between its two uploads and left an audio object alone
C15_Witness ==
    /\ Done /\ last.op = "create" /\ last.status = 500 /\ last.storeCalls = 3
    /\ PathOfUrl(last.url) \in DOMAIN store
    /\ ~HasMeta(store, last.id)

\* C16: when a TTS request's voice_id has been resolved to a stored voice, the
\* speaker reference handed to the inference service is that voice's stored
\* audio_url, also when the request carries inline audio, and no second
\* source (a temporary file of the inline audio) is made.
C16_VoiceIdTakesPrecedence ==
    (/\ Done /\ last.op = "tts" /\ Vercel
     /\ last.idGiven /\ last.rawId # <<>>
     /\ last.storeCalls = 2 /\ last.inferCalls = 1)
        => (last.fwdAudio = last.url /\ last.tmp = "absent")

\* the forwarded set the interface describes: the supplied value of every
\* recognized option that is in the request, the default of every other one
ExpectedParams(opts) ==
    [n \in OptionNames |-> IF opts[n] = Absent THEN DEFAULT_PARAMS[n] ELSE opts[n]]

\* C17: the five parameters handed to the inference service are, option by
\* option, the value the request supplies (falsy values included) or else the
\* default; an unrecognized option changes nothing; a JSON request and a form
\* request with the same values hand over the same parameters.
C17_ParameterMerge ==
    (Done /\ last.op = "tts" /\ Vercel /\ last.inferCalls = 1)
        => last.fwdParams = ExpectedParams(last.opts)

\* C18: a Create without a name stores and returns, as the voice's name, the
\* voice's id as stored (the sanitized identifier), whatever identifier was
\* supplied.
C18_NameDefaultsToStoredId ==
    (Done /\ last.op = "create" /\ last.status = 201 /\ ~last.nameGiven)
        => /\ last.body.name = last.body.id
           /\ store[Pathname(last.id, "json")].meta.name = last.id

\* C19: in every reachable store state, also after two concurrent Creates of
\* one id that both pass the existence check, the file_size of a metadata
\* object is the byte length of the audio object it references.
C19_FileSizeMatchesAudio ==
    \A j \in MetaPaths(store) :
        References(store, store[j].meta)
            => store[j].meta.file_size
                   = Len(store[PathOfUrl(store[j].meta.audio_url)].data)

\* the request is at, or past, its call of the inference service
AtInference(r) ==
    r.op = "tts" /\ (r.pc \in {"t_tmp", "t_predict"} \/ r.inferCalls > 0)

\* C20: a TTS request reaches its inference call only with its text checked
\* and, when it resolves a voice_id, with both storage lookups done and the
\* voice's audio_url in hand; it calls the inference service at most once,
\* also when the call fails.
C20_ResolveThenInferOnce ==
    \A r \in {last} \cup {req[p] : p \in Clients} :
        /\ r.inferCalls <= 1
        /\ AtInference(r) =>
            /\ r.hasText /\ r.text # <<>>
            /\ (Vercel /\ r.idGiven /\ r.rawId # <<>> /\ cfg.BLOB_TOKEN)
                  => /\ r.storeCalls = 2 /\ r.listOk
                     /\ r.url # <<>> /\ ~IsJson(PathOfUrl(r.url))
            /\ ~(Vercel /\ r.idGiven /\ r.rawId # <<>> /\ cfg.BLOB_TOKEN)
                  => r.storeCalls = 0

\* an inference call that failed after the voice was resolved, made once
C20_Witness ==
    /\ Done /\ last.op = "tts" /\ Vercel /\ last.status = 500
    /\ last.idGiven /\ last.storeCalls = 2 /\ last.inferCalls = 1

\* C21: no request changes the process-wide default parameters, so a request
\* without overrides hands the initial defaults to the inference service,
\* whatever overrides earlier requests carried.
C21_DefaultsUnchanged ==
    /\ defaults = DEFAULT_PARAMS
    /\ (/\ Done /\ last.op = "tts" /\ Vercel /\ last.inferCalls = 1
         /\ \A n \in OptionNames : last.opts[n] = Absent)
            => last.fwdParams = DEFAULT_PARAMS

\* a request without overrides, not the first one, has been forwarded
C21_Witness ==
    /\ served > 1 /\ Done /\ last.op = "tts" /\ last.inferCalls = 1
    /\ last.opts = NoOptions /\ last.fwdParams = DEFAULT_PARAMS

\* C22 as stated: on the same store state Delete(id) answers 404 exactly when
\* Get(id) answers 404, that is, exactly when the id has no metadata object;
\* also when the id has an audio object but no metadata object.
C22_GetDeleteAgree ==
    /\ (Done /\ last.op = "delete" /\ last.listOk)
            => (last.status = 404 <=> ~last.metaAtList)
    /\ (Done /\ last.op = "get" /\ last.listOk)
            => ((last.storeCalls = 1 /\ last.status = 404) <=> last.listed = {})

\* C22 amended: a Delete(id) whose listing succeeds answers 404 exactly when
\* nothing is stored under the id's prefix, a Get(id) whose listing succeeds
\* answers 404 after it exactly when no metadata object is stored there; so
\* on one store state a 404 from Delete implies a 404 from Get, and the two
\* differ exactly when the prefix holds objects but no metadata object.
C22_DeleteNotFoundImpliesGet ==
    /\ (Done /\ last.op = "delete" /\ last.listOk)
            => /\ last.status = 404 <=> last.listed = {}
               /\ last.status = 404 => ~last.metaAtList
               /\ (last.status # 404 /\ ~last.metaAtList)
                    => \A b \in last.listed : ~IsJson(b)
    /\ (Done /\ last.op = "get" /\ last.listOk)
            => /\ (last.storeCalls = 1 /\ last.status = 404) <=> ~last.metaAtList
               /\ last.listed = {} => ~last.metaAtList

\* a Delete on an id that has an audio object and no metadata object has
\* answered success
C22_Witness ==
    /\ Done /\ last.op = "delete" /\ last.listOk
    /\ ~last.metaAtList /\ last.listed # {} /\ last.status = 200

\* the objects a voice id can own
ObjectsOf(id) == {Pathname(id, e) : e \in AudioExts \cup {"json"}}

\* every object outside the set keeps its place and its content
KeepsOthers(own) ==
    /\ DOMAIN store' \subseteq DOMAIN store
    /\ \A path \in DOMAIN store \ own :
        path \in DOMAIN store' /\ store'[path] = store[path]

\* C23: a store call of Delete(id) or Get(id) changes nothing but the objects
\* of exactly that id (also when another stored id has id as a prefix); only
\* the batch call of a Delete changes anything, so a Delete that ends before
\* it (404, or a failed listing), like every Get, leaves the whole store as
\* it was.
C23_DeleteTouchesOnlyItsId ==
    [][\A p \in Clients :
        (req[p].op \in {"delete", "get"} /\ req'[p] # req[p])
            => IF req[p].pc = "d_delete"
               THEN KeepsOthers(ObjectsOf(req[p].id))
               ELSE store' = store]_vars

\* Delete of an id has succeeded while the voice of a longer id that begins
\* with it is still stored
C23_Witness ==
    /\ Done /\ last.op = "delete" /\ last.status = 200 /\ last.id = <<"a">>
    /\ ~HasMeta(store, <<"a">>)
    /\ {Pathname(<<"a", "b">>, "wav"), Pathname(<<"a", "b">>, "json")}
            \subseteq DOMAIN store

====
